---- MODULE Spec2Model ----
(***************************************************************************)
(* The store coordination layer of store/tikv/kv.go: the process-wide      *)
(* store registry (mc), Driver.Open and tikvStore.Close, the safepoint     *)
(* refresh goroutine started by StartGCWorker, CheckVisibility, and the    *)
(* timestamp retry loop of getTimestampWithRetry; and the max/min          *)
(* aggregate function of expression/aggregation/max_min.go.                *)
(*                                                                         *)
(* Time is kept relative: for every store the model holds the time that    *)
(* has passed since s.spTime (the value time.Since(s.spTime) would give)   *)
(* and the time a sleeping refresh goroutine still has to sleep.  Elapsed  *)
(* times saturate one sleep interval above the staleness threshold, where  *)
(* the comparison of CheckVisibility no longer changes.                    *)
(***************************************************************************)
EXTENDS Integers, Sequences, FiniteSets, TLC

\* ------------------------------------------------------------------ bounds
NumThreads == 2          \* client goroutines calling into the package
MaxStores == 2           \* tikvStore instances constructed in one run
MaxTS == 2               \* timestamps the oracle issues in one run
BackoffBudget == 2       \* Backoff calls a Backoffer grants before it is exhausted
MaxDatum == 2            \* the integer values of a column: 1..MaxDatum, and NULL
NumCols == 2             \* columns of a row fed to an aggregate function
MaxArgs == 2             \* argument expressions of an aggregate function
MaxFuncs == 2            \* maxMinFunction objects in one run: the first and its clones

\* --------------------------------------------------------- program constants
StaleThreshold == 100    \* CheckVisibility: diff > 100*time.Second
SleepInterval == 5       \* refresh goroutine: time.Sleep(5 * time.Second)

Threads == 1..NumThreads
AgeCap == StaleThreshold + SleepInterval
TickSteps == {SleepInterval, StaleThreshold}

Min(a, b) == IF a < b THEN a ELSE b
Max(a, b) == IF a > b THEN a ELSE b

\* ------------------------------------------------------------- descriptors
\* A path as url.Parse sees it: parseable or not, its scheme, its host as the
\* comma-separated address list, and the value of the disableGC query option.
Paths ==
  { [ok |-> TRUE,  scheme |-> "tikv",     host |-> <<"pd1">>,  disableGC |-> ""],
    [ok |-> TRUE,  scheme |-> "TiKV",     host |-> <<"pd1b">>, disableGC |-> "TRUE"],
    [ok |-> TRUE,  scheme |-> "tikv",     host |-> <<"pd2">>,  disableGC |-> "false"],
    [ok |-> TRUE,  scheme |-> "mocktikv", host |-> <<"pd1">>,  disableGC |-> ""],
    [ok |-> TRUE,  scheme |-> "tikv",     host |-> <<"pd1">>,  disableGC |-> "yes"],
    [ok |-> FALSE, scheme |-> "",         host |-> <<>>,       disableGC |-> ""] }

\* strings.ToLower on the strings the descriptors use
ToLower(s) ==
  CASE s = "TiKV" -> "tikv"
    [] s = "TRUE" -> "true"
    [] s = "FALSE" -> "false"
    [] OTHER -> s

\* parsePath: (etcdAddrs, disableGC, err)
parsePath(path) ==
  IF ~path.ok
    THEN [etcdAddrs |-> <<>>, disableGC |-> FALSE, err |-> "parse"]
  ELSE IF ToLower(path.scheme) # "tikv"
    THEN [etcdAddrs |-> <<>>, disableGC |-> FALSE, err |-> "scheme"]
  ELSE IF ToLower(path.disableGC) = "true"
    THEN [etcdAddrs |-> path.host, disableGC |-> TRUE, err |-> ""]
  ELSE IF ToLower(path.disableGC) \in {"false", ""}
    THEN [etcdAddrs |-> path.host, disableGC |-> FALSE, err |-> ""]
  ELSE [etcdAddrs |-> <<>>, disableGC |-> FALSE, err |-> "disableGC"]

\* pdCli.GetClusterID: the cluster the placement service at these addresses serves
GetClusterID(etcdAddrs) == IF etcdAddrs[1] \in {"pd1", "pd1b"} THEN 1 ELSE 2

\* uuid := fmt.Sprintf("tikv-%v", clusterID)
UUIDOf(clusterID) == <<"tikv-", clusterID>>

\* ------------------------------------------------------- the persisted value
\* The row of mysql.tidb the refresh reads: absent, or present with a string value.
Rows ==
  { [present |-> FALSE, value |-> <<>>] } \cup
  { [present |-> TRUE, value |-> v] : v \in {<<>>, <<"3">>, <<"1", "2">>, <<"x">>} }

ExecOutcomes == {"ok", "execErr", "nextErr"}

Digits == {"0", "1", "2", "3", "4", "5", "6", "7", "8", "9"}
DigitVal(c) ==
  CASE c = "0" -> 0 [] c = "1" -> 1 [] c = "2" -> 2 [] c = "3" -> 3 [] c = "4" -> 4
    [] c = "5" -> 5 [] c = "6" -> 6 [] c = "7" -> 7 [] c = "8" -> 8 [] c = "9" -> 9

RECURSIVE DecimalValue(_)
DecimalValue(str) ==
  IF str = <<>> THEN 0
  ELSE 10 * DecimalValue(SubSeq(str, 1, Len(str) - 1)) + DigitVal(str[Len(str)])

\* strconv.ParseUint(str, 10, 64), on strings short enough to stay in range
ParseUint(str) ==
  IF str = <<>> \/ \E i \in 1..Len(str) : str[i] \notin Digits
    THEN [val |-> 0, err |-> "syntax"]
  ELSE [val |-> DecimalValue(str), err |-> ""]

\* loadValueFromSysTable: (string, err) for the outcome of Execute/Next and the row
loadValueFromSysTable(exec, row) ==
  IF exec = "execErr" THEN [str |-> <<>>, err |-> "no value"]
  ELSE IF exec = "nextErr" THEN [str |-> <<>>, err |-> "next"]
  ELSE IF ~row.present THEN [str |-> <<>>, err |-> ""]
  ELSE [str |-> row.value, err |-> ""]

\* loadUint64: (uint64, err)
loadUint64(exec, row) ==
  LET r == loadValueFromSysTable(exec, row) IN
  IF r.err # "" THEN [val |-> 0, err |-> r.err]
  ELSE IF r.str = <<>> THEN [val |-> 0, err |-> ""]
  ELSE ParseUint(r.str)

\* ------------------------------------------------------------------- state
VARIABLES
  mcOwner,     \* mc.Mutex: 0 when free, else the thread holding it
  cache,       \* mc.cache: a function from the uuids present to store instances
  store,       \* the tikvStore instances constructed so far, by instance number
  hist,        \* per instance, what has happened to it (history, not program state)
  pc,          \* per thread, where it stands
  loc,         \* per thread, the locals of the call it is in
  ret,         \* per thread, what its last call returned
  hdl,         \* per thread, the store handle it holds (0: none)
  sessionUp,   \* whether tidb.CreateSession currently succeeds
  tso,         \* the last timestamp the oracle issued
  tsLog,       \* per thread, the outcomes of the oracle calls of its current call
  funcs,       \* the maxMinFunction objects, by address
  arrays,      \* the backing arrays of Args slices, by address: expression addresses
  exprs,       \* the expression objects, by address
  streamCtxs,  \* the stream contexts, by address
  fed,         \* per function and group key, the non-NULL values fed (history)
  streamFed,   \* per function, the non-NULL values fed to its stream group (history)
  aggRet       \* what the last call on an aggregate function returned

kvVars == <<mcOwner, cache, store, hist, pc, loc, ret, hdl, sessionUp, tso, tsLog>>
aggVars == <<funcs, arrays, exprs, streamCtxs, fed, streamFed, aggRet>>
vars == <<mcOwner, cache, store, hist, pc, loc, ret, hdl, sessionUp, tso, tsLog,
          funcs, arrays, exprs, streamCtxs, fed, streamFed, aggRet>>

Instances == 1..Len(store)

NoLoc == [etcdAddrs |-> <<>>, disableGC |-> FALSE, bo |-> 0, currentSafePoint |-> 0]
NoRet == [op |-> "none", val |-> 0, err |-> ""]
Ret(op, val, err) == [op |-> op, val |-> val, err |-> err]

\* newTikvStore: the instance as constructed
NewStoreRecord(uuid, enableGC) ==
  [ uuid |-> uuid, etcdAddrs |-> <<>>, enableGC |-> enableGC, gcWorker |-> "nil",
    safePoint |-> 0, sinceSpTime |-> 0, spSession |-> "nil", spMsgClosed |-> FALSE,
    connsClosed |-> FALSE,
    loopPc |-> "none", repeatbreak |-> FALSE, sleepLeft |-> 0,
    newSafePoint |-> 0, loadErr |-> FALSE, spMutex |-> "free" ]

NewHist ==
  [ sinceOK |-> 0, closeCalls |-> 0, fetchAfterClose |-> 0, writeAfterClose |-> 0,
    fetchFailed |-> FALSE, lastOK |-> -1 ]

Sat(n) == Min(n + 1, 2)

\* ------------------------------------------------------------- aggregation
\* types.Datum: NULL (the zero Datum) or an integer
Null == [null |-> TRUE, i |-> 0]
IntDatum(k) == [null |-> FALSE, i |-> k]
Datums == {Null} \cup {IntDatum(k) : k \in 1..MaxDatum}
IsNull(d) == d.null

\* Datum.CompareDatum on two integer datums: -1, 0 or 1, and no error
CompareDatum(a, b) == IF a.i < b.i THEN -1 ELSE IF a.i > b.i THEN 1 ELSE 0

\* the rows and group keys fed to an aggregate function
AggRows == [1..NumCols -> Datums]
GroupKeys == {"g1", "g2"}

\* a.Eval(row) for a column reference
Eval(e, row) == row[e.index]

\* an aggregation context as created, and a result map as made
NewContext == [Value |-> Null]
NoMapper == [g \in {} |-> NewContext]

Funcs == 1..Len(funcs)
CtxIds == 1..MaxFuncs
AggRet(op, f, key, val, err) ==
  [op |-> op, f |-> f, key |-> key, val |-> val, err |-> err]

\* no aggregate function exists
NoAggregation ==
  /\ funcs = << >>
  /\ arrays = << >>
  /\ exprs = << >>
  /\ streamCtxs = [c \in CtxIds |-> NewContext]
  /\ fed = << >>
  /\ streamFed = << >>
  /\ aggRet = AggRet("none", 0, "", Null, "")

\* mmf.getContext(groupKey): the result map after the call, which holds a
\* context for groupKey, a new one if it held none
getContext(resultMapper, groupKey) ==
  IF groupKey \in DOMAIN resultMapper THEN resultMapper
  ELSE resultMapper @@ (groupKey :> NewContext)

\* mmf.getStreamedContext(): the address of the stream context of f, a new one
\* (the lowest address no function refers to) if f has none
getStreamedContext(f) ==
  IF funcs[f].streamCtx # 0 THEN funcs[f].streamCtx
  ELSE CHOOSE c \in CtxIds :
         /\ \A g \in Funcs : funcs[g].streamCtx # c
         /\ \A d \in CtxIds : d < c => \E g \in Funcs : funcs[g].streamCtx = d

\* Update and StreamUpdate, from the test of ctx.Value.IsNull() to the end: the
\* new ctx.Value
MaxMinStep_KeepFirst(isMax, old, value) == IF IsNull(old) THEN value ELSE old
MaxMinStep(isMax, old, value) ==
  LET first == IF IsNull(old) THEN value ELSE old IN
    IF IsNull(value) THEN first
    ELSE LET c == CompareDatum(first, value) IN
           IF (isMax /\ c = -1) \/ (~isMax /\ c = 1) THEN value ELSE first

\* maxMinFunction.Update
Update(f, row, groupKey) ==
  /\ LET resultMapper == getContext(funcs[f].resultMapper, groupKey)
         Args == arrays[funcs[f].Args]
     IN
       IF Len(Args) # 1
         THEN /\ funcs' = [funcs EXCEPT ![f].resultMapper = resultMapper]
              /\ aggRet' = AggRet("Update", f, groupKey, Null, "args")
              /\ UNCHANGED fed
         ELSE LET value == Eval(exprs[Args[1]], row) IN
                /\ funcs' = [funcs EXCEPT ![f].resultMapper =
                               [resultMapper EXCEPT ![groupKey].Value =
                                  MaxMinStep(funcs[f].isMax, @, value)]]
                /\ aggRet' = AggRet("Update", f, groupKey, Null, "")
                /\ fed' = [fed EXCEPT ![f][groupKey] =
                             IF IsNull(value) THEN @ ELSE @ \cup {value.i}]
  /\ UNCHANGED <<kvVars, arrays, exprs, streamCtxs, streamFed>>

\* maxMinFunction.StreamUpdate
StreamUpdate(f, row) ==
  /\ LET c == getStreamedContext(f)
         ctx == IF funcs[f].streamCtx = 0 THEN NewContext ELSE streamCtxs[c]
         Args == arrays[funcs[f].Args]
     IN
       /\ funcs' = [funcs EXCEPT ![f].streamCtx = c]
       /\ IF Len(Args) # 1
            THEN /\ streamCtxs' = [streamCtxs EXCEPT ![c] = ctx]
                 /\ aggRet' = AggRet("StreamUpdate", f, "", Null, "args")
                 /\ UNCHANGED streamFed
            ELSE LET value == Eval(exprs[Args[1]], row) IN
                   /\ streamCtxs' = [streamCtxs EXCEPT ![c] =
                                       [Value |-> MaxMinStep(funcs[f].isMax,
                                                             ctx.Value, value)]]
                   /\ aggRet' = AggRet("StreamUpdate", f, "", Null, "")
                   /\ streamFed' = [streamFed EXCEPT ![f] =
                                      IF IsNull(value) THEN @ ELSE @ \cup {value.i}]
  /\ UNCHANGED <<kvVars, arrays, exprs, fed>>

\* maxMinFunction.GetGroupResult
GetGroupResult(f, groupKey) ==
  /\ LET resultMapper == getContext(funcs[f].resultMapper, groupKey) IN
       /\ funcs' = [funcs EXCEPT ![f].resultMapper = resultMapper]
       /\ aggRet' = AggRet("GetGroupResult", f, groupKey,
                           resultMapper[groupKey].Value, "")
  /\ UNCHANGED <<kvVars, arrays, exprs, streamCtxs, fed, streamFed>>

\* maxMinFunction.GetStreamResult.  A context no function refers to any more
\* is garbage and its address is free again.
GetStreamResult(f) ==
  /\ LET c == funcs[f].streamCtx IN
       IF c = 0
         THEN /\ aggRet' = AggRet("GetStreamResult", f, "", Null, "")
              /\ UNCHANGED <<funcs, streamCtxs>>
         ELSE /\ aggRet' = AggRet("GetStreamResult", f, "", streamCtxs[c].Value, "")
              /\ funcs' = [funcs EXCEPT ![f].streamCtx = 0]
              /\ streamCtxs' =
                   IF \E g \in Funcs \ {f} : funcs[g].streamCtx = c
                     THEN streamCtxs
                     ELSE [streamCtxs EXCEPT ![c] = NewContext]
  /\ streamFed' = [streamFed EXCEPT ![f] = {}]
  /\ UNCHANGED <<kvVars, arrays, exprs, fed>>

\* maxMinFunction.Clone: nf := *mmf copies the struct, so nf.Args is the slice
\* mmf.Args (the same backing array) and nf.streamCtx the pointer
\* mmf.streamCtx; the loop stores a clone of every argument into nf.Args[i];
\* nf.resultMapper is a new map.
Clone(f) ==
  /\ Len(funcs) < MaxFuncs
  /\ LET Args == arrays[funcs[f].Args]
         nf == [funcs[f] EXCEPT !.resultMapper = NoMapper]
     IN
       /\ exprs' = exprs \o [i \in 1..Len(Args) |-> exprs[Args[i]]]
       /\ arrays' = [arrays EXCEPT ![nf.Args] =
                       [i \in 1..Len(Args) |-> Len(exprs) + i]]
       /\ funcs' = Append(funcs, nf)
  /\ fed' = Append(fed, [g \in GroupKeys |-> {}])
  /\ streamFed' = Append(streamFed, {})
  /\ aggRet' = AggRet("Clone", f, "", Null, "")
  /\ UNCHANGED <<kvVars, streamCtxs>>

\* ------------------------------------------------------------------- Init
\* no store has been opened
NoStores ==
  /\ mcOwner = 0
  /\ cache = [u \in {} |-> 0]
  /\ store = << >>
  /\ hist = << >>
  /\ pc = [t \in Threads |-> "idle"]
  /\ loc = [t \in Threads |-> NoLoc]
  /\ ret = [t \in Threads |-> NoRet]
  /\ hdl = [t \in Threads |-> 0]
  /\ tso = 0
  /\ tsLog = [t \in Threads |-> << >>]

Init ==
  /\ NoStores
  /\ sessionUp \in BOOLEAN
  /\ NoAggregation

\* One max or min function as the planner builds it: its arguments are column
\* references, its result map is empty and it has no stream context.
InitAggregate ==
  /\ NoStores
  /\ sessionUp = FALSE
  /\ \E isMax \in BOOLEAN, n \in 1..MaxArgs :
       \E cols \in [1..n -> 1..NumCols] :
         /\ funcs = << [isMax |-> isMax, Args |-> 1, resultMapper |-> NoMapper,
                        streamCtx |-> 0] >>
         /\ arrays = << [i \in 1..n |-> i] >>
         /\ exprs = [i \in 1..n |-> [index |-> cols[i]]]
  /\ streamCtxs = [c \in CtxIds |-> NewContext]
  /\ fed = << [g \in GroupKeys |-> {}] >>
  /\ streamFed = << {} >>
  /\ aggRet = AggRet("none", 0, "", Null, "")

\* one aggregate function and the rows fed to it
NextAggregate ==
  \/ \E f \in Funcs, row \in AggRows, groupKey \in GroupKeys : Update(f, row, groupKey)
  \/ \E f \in Funcs, row \in AggRows : StreamUpdate(f, row)
  \/ \E f \in Funcs, groupKey \in GroupKeys : GetGroupResult(f, groupKey)
  \/ \E f \in Funcs : GetStreamResult(f)
SpecAggregate == InitAggregate /\ [][NextAggregate]_vars

\* an aggregate function, its clones, and the rows fed to each of them, all in
\* one group
NextClone ==
  \/ \E f \in Funcs, row \in AggRows : Update(f, row, "g1")
  \/ \E f \in Funcs, row \in AggRows : StreamUpdate(f, row)
  \/ \E f \in Funcs : GetGroupResult(f, "g1")
  \/ \E f \in Funcs : GetStreamResult(f)
  \/ \E f \in Funcs : Clone(f)
SpecClone == InitAggregate /\ [][NextClone]_vars

\* ---------------------------------------------------------------- registry
\* mc.Lock(): the caller becomes the holder
McLock_NotTaken(t) == 0
McLock(t) == t

\* defer mc.Unlock(): the lock is free again when the function returns
McUnlock_StillHeld(owner) == owner
McUnlock(owner) == 0

\* store, ok := mc.cache[uuid]  (0: not present)
CacheLookup_AlwaysMiss(c, uuid) == 0
CacheLookup(c, uuid) == IF uuid \in DOMAIN c THEN c[uuid] ELSE 0

\* mc.cache[uuid] = s
CacheInsert(c, uuid, s) ==
  [u \in DOMAIN c \cup {uuid} |-> IF u = uuid THEN s ELSE c[u]]

\* delete(mc.cache, uuid)
CacheDelete_Keep(c, uuid) == c
CacheDelete(c, uuid) == [u \in DOMAIN c \ {uuid} |-> c[u]]

\* Driver.Open, entry: mc.Lock(), then parsePath; an error returns at once and
\* the deferred mc.Unlock() runs.
OpenLock(t, path) ==
  /\ pc[t] = "idle" /\ hdl[t] = 0
  /\ mcOwner = 0
  /\ Len(store) < MaxStores
  /\ LET p == parsePath(path) IN
       IF p.err # ""
         THEN /\ ret' = [ret EXCEPT ![t] = Ret("Open", 0, p.err)]
              /\ UNCHANGED <<mcOwner, pc, loc>>
         ELSE /\ mcOwner' = McLock(t)
              /\ pc' = [pc EXCEPT ![t] = "openNewClient"]
              /\ loc' = [loc EXCEPT ![t] =
                           [NoLoc EXCEPT !.etcdAddrs = p.etcdAddrs,
                                         !.disableGC = p.disableGC]]
              /\ ret' = [ret EXCEPT ![t] = NoRet]
  /\ UNCHANGED <<cache, store, hist, hdl, sessionUp, tso, tsLog, aggVars>>

\* Driver.Open: pd.NewClient(etcdAddrs), with the registry lock held
OpenNewClient(t) ==
  /\ pc[t] = "openNewClient"
  /\ \E outcome \in {"ok", "i/o timeout", "err"} :
       IF outcome = "ok"
         THEN /\ pc' = [pc EXCEPT ![t] = "openFinish"]
              /\ UNCHANGED <<mcOwner, ret, loc>>
         ELSE /\ pc' = [pc EXCEPT ![t] = "idle"]
              /\ ret' = [ret EXCEPT ![t] = Ret("Open", 0, outcome)]
              /\ loc' = [loc EXCEPT ![t] = NoLoc]
              /\ mcOwner' = McUnlock(mcOwner)
  /\ UNCHANGED <<cache, store, hist, hdl, sessionUp, tso, tsLog, aggVars>>

\* Driver.Open: GetClusterID, the lookup, newTikvStore, the insertion, the return
\* and the deferred mc.Unlock()
OpenFinish(t) ==
  /\ pc[t] = "openFinish"
  /\ LET uuid == UUIDOf(GetClusterID(loc[t].etcdAddrs))
         found == CacheLookup(cache, uuid)
         new == Len(store) + 1
     IN
       IF found # 0
         THEN /\ ret' = [ret EXCEPT ![t] = Ret("Open", found, "")]
              /\ hdl' = [hdl EXCEPT ![t] = found]
              /\ UNCHANGED <<cache, store, hist>>
         ELSE \E oracleOK \in BOOLEAN :
                IF oracleOK
                  THEN /\ store' = Append(store,
                                     [NewStoreRecord(uuid, ~loc[t].disableGC)
                                        EXCEPT !.etcdAddrs = loc[t].etcdAddrs])
                       /\ hist' = Append(hist, NewHist)
                       /\ cache' = CacheInsert(cache, uuid, new)
                       /\ ret' = [ret EXCEPT ![t] = Ret("Open", new, "")]
                       /\ hdl' = [hdl EXCEPT ![t] = new]
                  ELSE /\ ret' = [ret EXCEPT ![t] = Ret("Open", 0, "oracle")]
                       /\ UNCHANGED <<cache, store, hist, hdl>>
  /\ pc' = [pc EXCEPT ![t] = "idle"]
  /\ loc' = [loc EXCEPT ![t] = NoLoc]
  /\ mcOwner' = McUnlock(mcOwner)
  /\ UNCHANGED <<sessionUp, tso, tsLog, aggVars>>

\* tikvStore.Close, entry: mc.Lock()
CloseLock(t) ==
  /\ pc[t] = "idle" /\ hdl[t] # 0
  /\ mcOwner = 0
  /\ mcOwner' = McLock(t)
  /\ pc' = [pc EXCEPT ![t] = "closeBody"]
  /\ ret' = [ret EXCEPT ![t] = NoRet]
  /\ hist' = [hist EXCEPT ![hdl[t]].closeCalls = Sat(@)]
  /\ UNCHANGED <<cache, store, loc, hdl, sessionUp, tso, tsLog, aggVars>>

\* tikvStore.Close, body: delete from the registry, close the oracle, the pd
\* client and the gc worker, close(s.spMsg), close the rpc client, return; the
\* deferred mc.Unlock() runs on return and on panic.  close() of a channel that
\* is already closed panics.
CloseBody(t) ==
  /\ pc[t] = "closeBody"
  /\ LET s == hdl[t] IN
       /\ cache' = CacheDelete(cache, store[s].uuid)
       /\ IF store[s].spMsgClosed
            THEN /\ pc' = [pc EXCEPT ![t] = "panicked"]
                 /\ ret' = [ret EXCEPT ![t] = Ret("Close", s, "panic")]
                 /\ UNCHANGED store
            ELSE /\ store' = [store EXCEPT
                                ![s].spMsgClosed = TRUE,
                                ![s].connsClosed = TRUE,
                                ![s].gcWorker = IF @ = "running" THEN "closed" ELSE @]
                 /\ pc' = [pc EXCEPT ![t] = "idle"]
                 /\ \E clientErr \in BOOLEAN :
                      ret' = [ret EXCEPT ![t] =
                                Ret("Close", s, IF clientErr THEN "client" ELSE "")]
  /\ hdl' = [hdl EXCEPT ![t] = 0]
  /\ mcOwner' = McUnlock(mcOwner)
  /\ UNCHANGED <<hist, loc, sessionUp, tso, tsLog, aggVars>>

\* The registry alone: concurrent Driver.Open and tikvStore.Close calls.
NextRegistry ==
  \E t \in Threads :
    \/ \E path \in Paths : OpenLock(t, path)
    \/ OpenNewClient(t)
    \/ OpenFinish(t)
    \/ CloseLock(t)
    \/ CloseBody(t)

SpecRegistry == Init /\ [][NextRegistry]_vars

\* The instances constructed for one cluster identity, and whether Close was
\* ever called on one of them.
StoresOf(uuid) == {s \in Instances : store[s].uuid = uuid}
NoCloseOn(uuid) == \A s \in StoresOf(uuid) : hist[s].closeCalls = 0
UUIDs == {UUIDOf(1), UUIDOf(2)}
Registered(c, uuid, s) == uuid \in DOMAIN c /\ c[uuid] = s

\* C1: as long as Close was never called on a handle of an identity, concurrent
\* Driver.Open calls resolving to that identity construct at most one tikvStore,
\* exactly one once a call has returned a handle, that instance is the one the
\* registry maps the identity to, and every handle returned or held is that
\* instance.
C1_OneStorePerIdentity ==
  \A u \in UUIDs :
    NoCloseOn(u) =>
      /\ Cardinality(StoresOf(u)) <= 1
      /\ \A s \in StoresOf(u) : Registered(cache, u, s)
      /\ \A t \in Threads :
           (ret[t].op = "Open" /\ ret[t].err = "" /\ store[ret[t].val].uuid = u) =>
             /\ StoresOf(u) = {ret[t].val}
             /\ hdl[t] = ret[t].val

\* Both threads have opened the same identity and hold the one instance
\* constructed for it, and nothing was closed.
C1_Witness ==
  /\ \A t \in Threads : ret[t].op = "Open" /\ ret[t].err = "" /\ hdl[t] = 1
  /\ Len(store) = 1
  /\ hist[1].closeCalls = 0

\* C4: when a Close call returns, the registry holds no entry for the identity
\* of the handle it closed; and a Driver.Open that returns a handle never returns
\* an instance that has been closed: with the entry gone it constructs a new
\* instance, which it registers.
C4_CloseUnregisters ==
  [][\A t \in Threads :
       /\ (pc[t] = "closeBody" /\ pc'[t] = "idle") =>
            /\ store[hdl[t]].uuid \notin DOMAIN cache'
            /\ store'[hdl[t]].spMsgClosed
       /\ (pc[t] = "openFinish" /\ ret'[t].err = "") =>
            /\ ~store'[ret'[t].val].spMsgClosed
            /\ Registered(cache', store'[ret'[t].val].uuid, ret'[t].val)
            /\ (\A s \in StoresOf(store'[ret'[t].val].uuid) : store[s].spMsgClosed)
                 => (ret'[t].val = Len(store) + 1 /\ Len(store') = Len(store) + 1)
    ]_vars

\* An instance was closed, its identity was opened again, and the handle
\* returned is a second instance while the first one stays closed.
C4_Witness ==
  \E t \in Threads :
    /\ ret[t].op = "Open" /\ ret[t].err = "" /\ ret[t].val = 2
    /\ store[2].uuid = store[1].uuid
    /\ store[1].spMsgClosed /\ ~store[2].spMsgClosed
    /\ Registered(cache, store[2].uuid, 2)

\* C5 (as claimed): no Close call ever ends in a panic, however many holders of
\* the same handle call it.
C5_CloseNeverPanics ==
  \A t \in Threads : pc[t] # "panicked"

\* C9 (as claimed): Driver.Open does not hold the registry lock while it creates
\* the placement-service client and resolves the cluster identity.
C9_LockNotHeldWhileResolving ==
  \A t \in Threads : pc[t] \in {"openNewClient", "openFinish"} => mcOwner # t

\* C9 (amended): the registry lock is held from the entry of Driver.Open to its
\* return, across the creation of the placement-service client and the identity
\* resolution, and from the entry of Close to its return; so while one thread is
\* inside Open or Close no other thread is, whatever cluster it addresses.
C9_LockHeldThroughout ==
  /\ \A t \in Threads :
       pc[t] \in {"openNewClient", "openFinish", "closeBody"} <=> mcOwner = t
  /\ Cardinality({t \in Threads :
                    pc[t] \in {"openNewClient", "openFinish", "closeBody"}}) <= 1

\* One thread is creating the placement-service client for one cluster while
\* another thread, holding a handle of a different cluster, cannot begin to
\* close it.
C9_Witness ==
  \E t1, t2 \in Threads :
    /\ pc[t1] = "openNewClient" /\ GetClusterID(loc[t1].etcdAddrs) = 1
    /\ pc[t2] = "idle" /\ hdl[t2] # 0 /\ store[hdl[t2]].uuid = UUIDOf(2)
    /\ ~ENABLED CloseLock(t2)

\* ------------------------------------------------------- safepoint refresh
\* select { case <-s.spMsg: ...; default: ... }: whether the receive is ready
SpMsgReady_Never(s) == FALSE
SpMsgReady(s) == store[s].spMsgClosed

\* if repeatbreak { break }: where the goroutine continues after the sleep
AfterSleep_Return(repeatbreak) == "exited"
AfterSleep(repeatbreak) == IF repeatbreak THEN "createSession" ELSE "select"

\* if !s.enableGC { return nil }; gcWorker, err := NewGCWorker(s); ...;
\* s.gcWorker = gcWorker: whether StartGCWorker sets s.gcWorker
SetsGCWorker_AnyStore(enableGC, gcWorkerOK) == gcWorkerOK
SetsGCWorker(enableGC, gcWorkerOK) == enableGC /\ gcWorkerOK

\* StartGCWorker: starts the refresh goroutine, then creates the GC worker when
\* GC is enabled.  Called by the session bootstrap, once per store, on a store
\* that is open.
StartGCWorker(s) ==
  /\ store[s].loopPc = "none"
  /\ ~store[s].spMsgClosed
  /\ \E gcWorkerOK \in BOOLEAN :
       store' = [store EXCEPT
                   ![s].loopPc = "createSession",
                   ![s].gcWorker = IF SetsGCWorker(store[s].enableGC, gcWorkerOK)
                                     THEN "running" ELSE @]
  /\ UNCHANGED <<mcOwner, cache, hist, pc, loc, ret, hdl, sessionUp, tso, tsLog, aggVars>>

\* createSPSession, one turn of its loop: tidb.CreateSession(s) fails and the
\* loop continues, or it succeeds and the function returns.
LoopCreateSession(s) ==
  /\ store[s].loopPc = "createSession"
  /\ store' = IF sessionUp
                THEN [store EXCEPT ![s].spSession = "ok", ![s].loopPc = "select"]
                ELSE [store EXCEPT ![s].spSession = "nil"]
  /\ UNCHANGED <<mcOwner, cache, hist, pc, loc, ret, hdl, sessionUp, tso, tsLog, aggVars>>

\* the select at the top of the inner loop
LoopSelect(s) ==
  /\ store[s].loopPc = "select"
  /\ store' = IF SpMsgReady(s)
                THEN [store EXCEPT ![s].loopPc = "exited"]
                ELSE [store EXCEPT ![s].loopPc = "fetch", ![s].repeatbreak = FALSE]
  /\ UNCHANGED <<mcOwner, cache, hist, pc, loc, ret, hdl, sessionUp, tso, tsLog, aggVars>>

\* newSafePoint, err := s.loadUint64(gcSavedSafePoint)
LoopFetch(s) ==
  /\ store[s].loopPc = "fetch"
  /\ \E exec \in ExecOutcomes, row \in Rows :
       LET r == loadUint64(exec, row) IN
         store' = [store EXCEPT ![s].loopPc = "store",
                                ![s].newSafePoint = r.val,
                                ![s].loadErr = (r.err # "")]
  /\ hist' = [hist EXCEPT
                ![s].fetchAfterClose = IF store[s].spMsgClosed THEN Sat(@) ELSE @]
  /\ UNCHANGED <<mcOwner, cache, pc, loc, ret, hdl, sessionUp, tso, tsLog, aggVars>>

\* the critical section of the err == nil branch: s.safePoint = newSafePoint;
\* s.spTime = time.Now()
WriteFetched(st, newSafePoint) ==
  [st EXCEPT !.safePoint = newSafePoint, !.sinceSpTime = 0]

\* the critical section of the else branch: s.spTime = time.Now()
WriteFailed_KeepTime(st) == st
WriteFailed(st) == [st EXCEPT !.sinceSpTime = 0]

\* the write of (safePoint, spTime) under spMutex, then time.Sleep begins
LoopStore(s) ==
  /\ store[s].loopPc = "store"
  /\ store' = IF ~store[s].loadErr
                THEN [store EXCEPT ![s] =
                        [WriteFetched(@, store[s].newSafePoint)
                           EXCEPT !.newSafePoint = 0,
                                  !.loopPc = "sleep",
                                  !.sleepLeft = SleepInterval]]
                ELSE [store EXCEPT ![s] =
                        [WriteFailed(@)
                           EXCEPT !.repeatbreak = TRUE,
                                  !.newSafePoint = 0,
                                  !.loadErr = FALSE,
                                  !.loopPc = "sleep",
                                  !.sleepLeft = SleepInterval]]
  /\ hist' = [hist EXCEPT
                ![s].sinceOK = IF store[s].loadErr THEN @ ELSE 0,
                ![s].lastOK = IF store[s].loadErr THEN @ ELSE store[s].newSafePoint,
                ![s].fetchFailed = @ \/ store[s].loadErr,
                ![s].writeAfterClose = IF store[s].spMsgClosed THEN Sat(@) ELSE @]
  /\ UNCHANGED <<mcOwner, cache, pc, loc, ret, hdl, sessionUp, tso, tsLog, aggVars>>

\* time.Sleep returns; break out to createSPSession or go round the inner loop
LoopWake(s) ==
  /\ store[s].loopPc = "sleep"
  /\ store[s].sleepLeft = 0
  /\ store' = [store EXCEPT ![s].loopPc = AfterSleep(store[s].repeatbreak),
                            ![s].repeatbreak = FALSE]
  /\ UNCHANGED <<mcOwner, cache, hist, pc, loc, ret, hdl, sessionUp, tso, tsLog, aggVars>>

LoopStep(s) ==
  LoopCreateSession(s) \/ LoopSelect(s) \/ LoopFetch(s) \/ LoopStore(s) \/ LoopWake(s)

\* diff > 100*time.Second
TooOld_AnyAge(diff) == diff >= 0
TooOld(diff) == diff > StaleThreshold

\* CheckVisibility: the pair read under spMutex, then time.Since(lastLocalTime)
\* compared with 100 s
CheckVisibility(t) ==
  /\ pc[t] = "idle" /\ hdl[t] # 0
  /\ LET s == hdl[t]
         currentSafePoint == store[s].safePoint
         diff == store[s].sinceSpTime
     IN ret' = [ret EXCEPT ![t] =
                  IF TooOld(diff)
                    THEN Ret("CheckVisibility", 0, "stale")
                    ELSE Ret("CheckVisibility", currentSafePoint, "")]
  /\ UNCHANGED <<mcOwner, cache, store, hist, pc, loc, hdl, sessionUp, tso, tsLog, aggVars>>

\* d seconds pass: a sleep interval while some refresh goroutine is asleep, or a
\* whole staleness threshold at any time
Tick(d) ==
  /\ d = SleepInterval => \E s \in Instances : store[s].sleepLeft > 0
  /\ store' = [s \in Instances |->
                 [store[s] EXCEPT !.sinceSpTime = Min(@ + d, AgeCap),
                                  !.sleepLeft = Max(@ - d, 0)]]
  /\ hist' = [s \in Instances |-> [hist[s] EXCEPT !.sinceOK = Min(@ + d, AgeCap)]]
  /\ UNCHANGED <<mcOwner, cache, pc, loc, ret, hdl, sessionUp, tso, tsLog, aggVars>>

\* the cluster becomes able, or unable, to serve tidb.CreateSession
EnvSession ==
  /\ sessionUp' = ~sessionUp
  /\ UNCHANGED <<mcOwner, cache, store, hist, pc, loc, ret, hdl, tso, tsLog, aggVars>>

\* One store of cluster 1 opened by every thread through Driver.Open, the first
\* of them with any of the well-formed descriptors of that cluster, as
\* SpecRegistry reaches it: the starting point of the safepoint and timestamp
\* specifications.
InitOpened ==
  /\ mcOwner = 0
  /\ cache = [u \in {UUIDOf(1)} |-> 1]
  /\ \E path \in Paths :
       LET p == parsePath(path) IN
         /\ p.err = ""
         /\ GetClusterID(p.etcdAddrs) = 1
         /\ store = << [NewStoreRecord(UUIDOf(1), ~p.disableGC)
                          EXCEPT !.etcdAddrs = p.etcdAddrs] >>
  /\ hist = << NewHist >>
  /\ pc = [t \in Threads |-> "idle"]
  /\ loc = [t \in Threads |-> NoLoc]
  /\ ret = [t \in Threads |-> Ret("Open", 1, "")]
  /\ hdl = [t \in Threads |-> 1]
  /\ sessionUp \in BOOLEAN
  /\ tso = 0
  /\ tsLog = [t \in Threads |-> << >>]
  /\ NoAggregation

NextSafepoint ==
  \/ \E t \in Threads : CloseLock(t)
  \/ \E t \in Threads : CloseBody(t)
  \/ \E t \in Threads : CheckVisibility(t)
  \/ \E s \in Instances : StartGCWorker(s)
  \/ \E s \in Instances : LoopCreateSession(s)
  \/ \E s \in Instances : LoopSelect(s)
  \/ \E s \in Instances : LoopFetch(s)
  \/ \E s \in Instances : LoopStore(s)
  \/ \E s \in Instances : LoopWake(s)
  \/ \E d \in TickSteps : Tick(d)
  \/ EnvSession

NextShutdown ==
  \/ \E t \in Threads : CloseLock(t)
  \/ \E t \in Threads : CloseBody(t)
  \/ \E s \in Instances : StartGCWorker(s)
  \/ \E s \in Instances : LoopCreateSession(s)
  \/ \E s \in Instances : LoopSelect(s)
  \/ \E s \in Instances : LoopFetch(s)
  \/ \E s \in Instances : LoopStore(s)
  \/ \E s \in Instances : LoopWake(s)
  \/ \E d \in TickSteps : Tick(d)
  \/ EnvSession
SpecShutdown == InitOpened /\ [][NextShutdown]_vars

NextVisibility ==
  \/ \E t \in Threads : CheckVisibility(t)
  \/ \E s \in Instances : StartGCWorker(s)
  \/ \E s \in Instances : LoopCreateSession(s)
  \/ \E s \in Instances : LoopSelect(s)
  \/ \E s \in Instances : LoopFetch(s)
  \/ \E s \in Instances : LoopStore(s)
  \/ \E s \in Instances : LoopWake(s)
  \/ \E d \in TickSteps : Tick(d)
  \/ EnvSession
SpecVisibility == InitOpened /\ [][NextVisibility]_vars

SpecSafepoint == InitOpened /\ [][NextSafepoint]_vars

\* ------------------------------------------------- spMutex, statement by statement
\* s.spMutex.Lock() returns when the mutex is free, and takes it
SpMutexFree_Always(m) == TRUE
SpMutexFree(m) == m = "free"

\* the refresh goroutine, after the fetch: s.spMutex.Lock()
LoopStoreLock(s) ==
  /\ store[s].loopPc = "store"
  /\ SpMutexFree(store[s].spMutex)
  /\ store' = [store EXCEPT
                 ![s].spMutex = "loop",
                 ![s].loopPc = IF store[s].loadErr THEN "lockedTime"
                                                   ELSE "lockedSafePoint"]
  /\ UNCHANGED <<mcOwner, cache, hist, pc, loc, ret, hdl, sessionUp, tso, tsLog, aggVars>>

\* s.safePoint = newSafePoint
LoopWriteSafePoint(s) ==
  /\ store[s].loopPc = "lockedSafePoint"
  /\ store' = [store EXCEPT ![s].safePoint = store[s].newSafePoint,
                            ![s].loopPc = "lockedTime"]
  /\ UNCHANGED <<mcOwner, cache, hist, pc, loc, ret, hdl, sessionUp, tso, tsLog, aggVars>>

\* s.spTime = time.Now(); s.spMutex.Unlock(); repeatbreak = true after a failed
\* fetch; time.Sleep begins
LoopWriteTime(s) ==
  /\ store[s].loopPc = "lockedTime"
  /\ store' = [store EXCEPT ![s].sinceSpTime = 0,
                            ![s].spMutex = "free",
                            ![s].repeatbreak = store[s].loadErr,
                            ![s].newSafePoint = 0,
                            ![s].loadErr = FALSE,
                            ![s].loopPc = "sleep",
                            ![s].sleepLeft = SleepInterval]
  /\ hist' = [hist EXCEPT
                ![s].sinceOK = IF store[s].loadErr THEN @ ELSE 0,
                ![s].lastOK = IF store[s].loadErr THEN @ ELSE store[s].newSafePoint,
                ![s].fetchFailed = @ \/ store[s].loadErr,
                ![s].writeAfterClose = IF store[s].spMsgClosed THEN Sat(@) ELSE @]
  /\ UNCHANGED <<mcOwner, cache, pc, loc, ret, hdl, sessionUp, tso, tsLog, aggVars>>

\* CheckVisibility: s.spMutex.Lock()
CheckVisibilityLock(t) ==
  /\ pc[t] = "idle" /\ hdl[t] # 0
  /\ SpMutexFree(store[hdl[t]].spMutex)
  /\ store' = [store EXCEPT ![hdl[t]].spMutex = "reader"]
  /\ pc' = [pc EXCEPT ![t] = "cvSafePoint"]
  /\ ret' = [ret EXCEPT ![t] = NoRet]
  /\ UNCHANGED <<mcOwner, cache, hist, loc, hdl, sessionUp, tso, tsLog, aggVars>>

\* currentSafePoint := s.safePoint
CheckVisibilityReadSafePoint(t) ==
  /\ pc[t] = "cvSafePoint"
  /\ loc' = [loc EXCEPT ![t].currentSafePoint = store[hdl[t]].safePoint]
  /\ pc' = [pc EXCEPT ![t] = "cvTime"]
  /\ UNCHANGED <<mcOwner, cache, store, hist, ret, hdl, sessionUp, tso, tsLog, aggVars>>

\* lastLocalTime := s.spTime; s.spMutex.Unlock(); diff := time.Since(...); the
\* comparison and the return
CheckVisibilityReadTime(t) ==
  /\ pc[t] = "cvTime"
  /\ LET diff == store[hdl[t]].sinceSpTime IN
       ret' = [ret EXCEPT ![t] =
                 IF TooOld(diff)
                   THEN Ret("CheckVisibility", 0, "stale")
                   ELSE Ret("CheckVisibility", loc[t].currentSafePoint, "")]
  /\ store' = [store EXCEPT ![hdl[t]].spMutex = "free"]
  /\ pc' = [pc EXCEPT ![t] = "idle"]
  /\ loc' = [loc EXCEPT ![t] = NoLoc]
  /\ UNCHANGED <<mcOwner, cache, hist, hdl, sessionUp, tso, tsLog, aggVars>>

\* The refresh goroutine and concurrent CheckVisibility calls, with every
\* statement inside the spMutex critical sections a step of its own.
NextMutex ==
  \/ \E t \in Threads : CheckVisibilityLock(t)
  \/ \E t \in Threads : CheckVisibilityReadSafePoint(t)
  \/ \E t \in Threads : CheckVisibilityReadTime(t)
  \/ \E s \in Instances : StartGCWorker(s)
  \/ \E s \in Instances : LoopCreateSession(s)
  \/ \E s \in Instances : LoopSelect(s)
  \/ \E s \in Instances : LoopFetch(s)
  \/ \E s \in Instances : LoopStoreLock(s)
  \/ \E s \in Instances : LoopWriteSafePoint(s)
  \/ \E s \in Instances : LoopWriteTime(s)
  \/ \E s \in Instances : LoopWake(s)
  \/ \E d \in TickSteps : Tick(d)
SpecMutex == InitOpened /\ [][NextMutex]_vars

\* The Go scheduler runs every runnable goroutine and the clock advances.  A
\* failed tidb.CreateSession leaves the state as it was, so the refresh
\* goroutine is given strong fairness: it is not enough for a behaviour to let
\* the goroutine try only at the moments the cluster cannot serve a session.
\* Nothing is assumed of the cluster itself.
FairShutdown ==
  /\ SpecShutdown
  /\ \A s \in 1..MaxStores : SF_vars(s \in Instances /\ LoopStep(s))
  /\ WF_vars(\E d \in TickSteps : Tick(d))

\* C2 (as claimed): the cached safepoint of an instance never decreases.
C2_SafePointMonotonic ==
  [][\A s \in Instances : store'[s].safePoint >= store[s].safePoint]_vars

\* C3 (as claimed): a CheckVisibility call made when no refresh has succeeded
\* for longer than the staleness threshold (since the last success, or since
\* construction when there was none) fails.
C3_StaleWithoutSuccess ==
  [][\A t \in Threads :
       (ret'[t] # ret[t] /\ ret'[t].op = "CheckVisibility"
          /\ hist[hdl[t]].sinceOK > StaleThreshold)
         => ret'[t].err = "stale"
    ]_vars

\* C6: the refresh goroutine exits only from its select and only with the
\* shutdown channel closed; a failed session creation leaves it in
\* createSPSession; after a failed fetch and the sleep it re-enters
\* createSPSession, from there the select, and with the channel open the next
\* fetch.
C6_LoopEndsOnlyOnShutdown ==
  [][\A s \in Instances :
       /\ (store[s].loopPc # "exited" /\ store'[s].loopPc = "exited") =>
            (store[s].loopPc = "select" /\ store[s].spMsgClosed)
       /\ (store[s].loopPc = "sleep" /\ store[s].repeatbreak
             /\ store'[s].loopPc # "sleep") => store'[s].loopPc = "createSession"
       /\ (store[s].loopPc = "createSession" /\ store'[s].loopPc # "createSession")
            => store'[s].loopPc = "select"
       /\ (store[s].loopPc = "select" /\ ~store[s].spMsgClosed
             /\ store'[s].loopPc # "select") => store'[s].loopPc = "fetch"
       /\ (store[s].loopPc = "store" /\ store[s].loadErr
             /\ store'[s].loopPc # "store") =>
            (store'[s].loopPc = "sleep" /\ store'[s].repeatbreak)
    ]_vars

\* A fetch has failed, the goroutine is still running and is about to fetch
\* again, and the store is open.
C6_Witness ==
  \E s \in Instances :
    hist[s].fetchFailed /\ store[s].loopPc = "fetch" /\ ~store[s].spMsgClosed

\* C7 (as claimed): once Close has closed the shutdown channel of a store whose
\* refresh goroutine was started, the goroutine eventually exits.
C7_LoopEventuallyExits ==
  \A s \in 1..MaxStores :
    (s \in Instances /\ store[s].spMsgClosed /\ store[s].loopPc # "none")
      ~> (s \in Instances /\ store[s].loopPc = "exited")

\* C8: after Close has closed the shutdown channel the refresh goroutine
\* performs at most one more fetch and at most one more write of
\* (safePoint, spTime), and its next select, which does not block, takes the
\* shutdown branch and ends it.
C8_AtMostOneFetchAfterClose ==
  [][\A s \in Instances :
       /\ hist'[s].fetchAfterClose <= 1
       /\ hist'[s].writeAfterClose <= 1
       /\ (store[s].spMsgClosed /\ store[s].loopPc = "select"
             /\ store'[s].loopPc # "select") => store'[s].loopPc = "exited"
    ]_vars

\* The channel was closed between the select and the fetch: one fetch and one
\* write followed, and the goroutine has exited.
C8_Witness ==
  \E s \in Instances :
    /\ hist[s].fetchAfterClose = 1 /\ hist[s].writeAfterClose = 1
    /\ store[s].loopPc = "exited"

\* ------------------------------------------------------------ timestamps
\* Backoffer.Backoff: one more call on this Backoffer; it fails once the budget
\* is used up.  bo counts the calls made on the Backoffer.
Backoff(bo) ==
  [bo |-> bo + 1, err |-> IF bo + 1 > BackoffBudget THEN "exhausted" ELSE ""]

\* getTimestampWithRetry, one turn of its loop, for the outcome of
\* s.oracle.GetTimestamp (ts, or 0 with an error): return the timestamp, or
\* call Backoff and return its error or go round again.
RetryTurn_NoBackoff(ts, bo) ==
  IF ts # 0 THEN [done |-> TRUE, val |-> ts, err |-> "", bo |-> bo]
  ELSE [done |-> FALSE, val |-> 0, err |-> "", bo |-> bo]
RetryTurn_IgnoreExhausted(ts, bo) ==
  IF ts # 0 THEN [done |-> TRUE, val |-> ts, err |-> "", bo |-> bo]
  ELSE [done |-> FALSE, val |-> 0, err |-> "", bo |-> Backoff(bo).bo]
RetryTurn(ts, bo) ==
  IF ts # 0 THEN [done |-> TRUE, val |-> ts, err |-> "", bo |-> bo]
  ELSE LET b == Backoff(bo) IN
         IF b.err # "" THEN [done |-> TRUE, val |-> 0, err |-> b.err, bo |-> b.bo]
         ELSE [done |-> FALSE, val |-> 0, err |-> "", bo |-> b.bo]

\* CurrentVersion, entry: bo := NewBackoffer(tsoMaxBackoff, ...)
CurrentVersionCall(t) ==
  /\ pc[t] = "idle" /\ hdl[t] # 0
  /\ tso < MaxTS
  /\ pc' = [pc EXCEPT ![t] = "getTS"]
  /\ loc' = [loc EXCEPT ![t] = [NoLoc EXCEPT !.bo = 0]]
  /\ ret' = [ret EXCEPT ![t] = NoRet]
  /\ tsLog' = [tsLog EXCEPT ![t] = << >>]
  /\ UNCHANGED <<mcOwner, cache, store, hist, hdl, sessionUp, tso, aggVars>>

\* getTimestampWithRetry, one turn: the oracle issues the next timestamp or
\* fails; CurrentVersion returns kv.NewVersion(startTS), or version 0 and the
\* error.
GetTimestampTurn(t) ==
  /\ pc[t] = "getTS"
  /\ \E oracleOK \in BOOLEAN :
       /\ oracleOK => tso < MaxTS
       /\ LET ts == IF oracleOK THEN tso + 1 ELSE 0
              r == RetryTurn(ts, loc[t].bo)
          IN /\ tso' = IF oracleOK THEN tso + 1 ELSE tso
             /\ tsLog' = [tsLog EXCEPT ![t] = Append(@, ts)]
             /\ loc' = [loc EXCEPT ![t].bo = r.bo]
             /\ IF r.done
                  THEN /\ pc' = [pc EXCEPT ![t] = "idle"]
                       /\ ret' = [ret EXCEPT ![t] = Ret("CurrentVersion", r.val, r.err)]
                  ELSE UNCHANGED <<pc, ret>>
  /\ UNCHANGED <<mcOwner, cache, store, hist, hdl, sessionUp, aggVars>>

NextTimestamp ==
  \/ \E t \in Threads : CurrentVersionCall(t)
  \/ \E t \in Threads : GetTimestampTurn(t)

SpecTimestamp == InitOpened /\ [][NextTimestamp]_vars

\* A call to the oracle returns, with a timestamp or with an error, and the
\* goroutine inside getTimestampWithRetry is scheduled.
FairTimestamp ==
  /\ SpecTimestamp
  /\ \A t \in Threads : WF_vars(GetTimestampTurn(t))

\* ------------------------------------------------------------ the whole
Next ==
  \/ \E t \in Threads, path \in Paths : OpenLock(t, path)
  \/ \E t \in Threads : OpenNewClient(t)
  \/ \E t \in Threads : OpenFinish(t)
  \/ \E t \in Threads : CloseLock(t)
  \/ \E t \in Threads : CloseBody(t)
  \/ \E t \in Threads : CheckVisibility(t)
  \/ \E t \in Threads : CurrentVersionCall(t)
  \/ \E t \in Threads : GetTimestampTurn(t)
  \/ \E s \in Instances : StartGCWorker(s)
  \/ \E s \in Instances : LoopStep(s)
  \/ \E d \in TickSteps : Tick(d)
  \/ EnvSession

Spec == Init /\ [][Next]_vars

\* ------------------------------------------------------------------ claims
\* the oracle calls of thread t's current call: k failures, then a timestamp
FailedThenIssued(t, k) ==
  /\ Len(tsLog[t]) = k + 1
  /\ \A i \in 1..k : tsLog[t][i] = 0
  /\ tsLog[t][k + 1] # 0

\* C10: when the oracle fails k times and then issues a timestamp, with the
\* Backoffer's budget not exhausted, getTimestampWithRetry has called Backoff
\* exactly k times on the one Backoffer of the call and the call returns the
\* timestamp of attempt k+1 and no error; while the call is in progress Backoff
\* has been called once per failed attempt.
C10_RetryReturnsLaterTimestamp ==
  \A t \in Threads :
    /\ \A k \in 0..BackoffBudget :
         FailedThenIssued(t, k) =>
           /\ pc[t] = "idle"
           /\ ret[t] = Ret("CurrentVersion", tsLog[t][k + 1], "")
           /\ loc[t].bo = k
    /\ pc[t] = "getTS" =>
         /\ loc[t].bo = Len(tsLog[t])
         /\ \A i \in 1..Len(tsLog[t]) : tsLog[t][i] = 0

\* The scenario of the claim: two failures, then the third attempt's timestamp.
C10_Witness ==
  \E t \in Threads :
    /\ FailedThenIssued(t, 2)
    /\ ret[t] = Ret("CurrentVersion", tsLog[t][3], "")
    /\ loc[t].bo = 2

\* how a CurrentVersion call of thread t has ended, from what the oracle
\* answered during the call
EndedWithTimestamp(t) ==
  /\ Len(tsLog[t]) >= 1
  /\ tsLog[t][Len(tsLog[t])] # 0
  /\ ret[t] = Ret("CurrentVersion", tsLog[t][Len(tsLog[t])], "")
  /\ loc[t].bo <= BackoffBudget
EndedExhausted(t) ==
  /\ \A i \in 1..Len(tsLog[t]) : tsLog[t][i] = 0
  /\ ret[t].val = 0 /\ ret[t].err # ""
  /\ loc[t].bo = BackoffBudget + 1

\* C11: with a finite backoff budget getTimestampWithRetry terminates: a call in
\* progress eventually returns, after at most budget + 1 oracle calls; it ends
\* with the timestamp of a successful oracle call and no error, or, exactly
\* when Backoff has reported exhaustion, with the error, and then
\* CurrentVersion returns version 0 and the error.
C11_RetryTerminates ==
  /\ [](\A t \in Threads :
          /\ Len(tsLog[t]) <= BackoffBudget + 1
          /\ ret[t].op = "CurrentVersion" =>
               /\ EndedWithTimestamp(t) \/ EndedExhausted(t)
               /\ ret[t].err # "" <=> loc[t].bo > BackoffBudget)
  /\ \A t \in Threads : (pc[t] = "getTS") ~> (pc[t] = "idle")

\* A call has ended with the error of the exhausted Backoffer and version 0,
\* after the oracle failed budget + 1 times.
C11_Witness ==
  \E t \in Threads :
    /\ ret[t].op = "CurrentVersion" /\ ret[t].err # "" /\ ret[t].val = 0
    /\ Len(tsLog[t]) = BackoffBudget + 1
    /\ pc[t] = "idle"

\* C12: a CheckVisibility call made after a fetch has succeeded, and no more
\* than the staleness threshold after the last fetch that succeeded, returns no
\* error and the value that this fetch stored, whatever failed fetches came
\* between.
C12_FreshAfterSuccess ==
  [][\A t \in Threads :
       (ret'[t] # ret[t] /\ ret'[t].op = "CheckVisibility"
          /\ hist[hdl[t]].lastOK # -1
          /\ hist[hdl[t]].sinceOK <= StaleThreshold)
         => ret'[t] = Ret("CheckVisibility", hist[hdl[t]].lastOK, "")
    ]_vars

\* A fetch stored 3, a sleep interval passed, and CheckVisibility returned 3.
C12_Witness ==
  \E t \in Threads :
    /\ ret[t] = Ret("CheckVisibility", 3, "")
    /\ hist[hdl[t]].lastOK = 3
    /\ hist[hdl[t]].sinceOK = SleepInterval

\* C13: on a store constructed with GC disabled (enableGC = !disableGC is
\* false) StartGCWorker starts the refresh goroutine, whose successful fetches
\* go on replacing the cached safepoint, and s.gcWorker stays nil from
\* construction through Close.
C13_DisabledGCStillRefreshes ==
  [][\A s \in Instances :
       ~store[s].enableGC =>
         /\ store[s].gcWorker = "nil" /\ store'[s].gcWorker = "nil"
         /\ (store[s].loopPc = "none" /\ ~store[s].spMsgClosed)
              => ENABLED StartGCWorker(s)
         /\ (store[s].loopPc = "none" /\ store'[s].loopPc # "none")
              => store'[s].loopPc = "createSession"
         /\ (store[s].loopPc = "store" /\ ~store[s].loadErr
               /\ store'[s].loopPc # "store")
              => store'[s].safePoint = store[s].newSafePoint
    ]_vars

\* A store with GC disabled whose goroutine stored 3, had a fetch fail, stored
\* 12 and exited after Close, with no GC worker at any time.
C13_Witness ==
  \E s \in Instances :
    /\ ~store[s].enableGC /\ store[s].gcWorker = "nil"
    /\ store[s].safePoint = 12 /\ hist[s].fetchFailed
    /\ store[s].spMsgClosed /\ store[s].loopPc = "exited"

\* C14: a failed fetch in the refresh goroutine sets spTime to the time of the
\* write and leaves safePoint as it was.
C14_FailedFetchKeepsSafePoint ==
  [][\A s \in Instances :
       (store[s].loopPc = "store" /\ store[s].loadErr /\ store'[s].loopPc # "store")
         => /\ store'[s].sinceSpTime = 0
            /\ store'[s].safePoint = store[s].safePoint
    ]_vars

\* A fetch has failed on a store whose cached safepoint is 3 and whose spTime
\* is a threshold old: the write that follows is the claim's case.
C14_Witness ==
  \E s \in Instances :
    /\ store[s].loopPc = "store" /\ store[s].loadErr
    /\ store[s].safePoint = 3 /\ store[s].sinceSpTime >= StaleThreshold

\* the threads inside CheckVisibility's critical section on store s, and
\* whether the refresh goroutine of s is inside one of its own
Readers(s) == {t \in Threads : hdl[t] = s /\ pc[t] \in {"cvSafePoint", "cvTime"}}
LoopInside(s) == store[s].loopPc \in {"lockedSafePoint", "lockedTime"}

\* C15: the refresh goroutine holds spMutex exactly while it is between Lock
\* and Unlock around its writes of safePoint and spTime, so not while it
\* fetches, creates its session, or sleeps; CheckVisibility holds it exactly
\* while it reads the two fields; the two never overlap; a CheckVisibility call
\* arriving during a fetch can take the mutex unless another CheckVisibility
\* holds it; and the pair a call returns on is the pair as the cache holds it
\* at that moment, never a safePoint of one write with the spTime of another.
C15_MutexOnlyAroundPair ==
  /\ [](\A s \in Instances :
          /\ store[s].spMutex = "loop" <=> LoopInside(s)
          /\ store[s].spMutex = "reader" <=> Readers(s) # {}
          /\ Cardinality(Readers(s)) <= 1
          /\ ~(LoopInside(s) /\ Readers(s) # {})
          /\ (store[s].loopPc = "fetch" /\ Readers(s) = {}) =>
               \A t \in Threads :
                 (pc[t] = "idle" /\ hdl[t] = s) => ENABLED CheckVisibilityLock(t))
  /\ [][\A t \in Threads :
          (pc[t] = "cvTime" /\ pc'[t] = "idle") =>
            /\ loc[t].currentSafePoint = store[hdl[t]].safePoint
            /\ ret'[t] = IF store[hdl[t]].sinceSpTime > StaleThreshold
                           THEN Ret("CheckVisibility", 0, "stale")
                           ELSE Ret("CheckVisibility", store[hdl[t]].safePoint, "")
       ]_vars

\* The goroutine has fetched a new value and waits for the mutex, which a
\* CheckVisibility call holds between its two reads, the second thread being
\* kept out as well.
C15_Witness ==
  \E s \in Instances, t \in Threads :
    /\ store[s].loopPc = "store" /\ ~store[s].loadErr
    /\ store[s].newSafePoint # store[s].safePoint
    /\ hdl[t] = s /\ pc[t] = "cvTime"
    /\ ~ENABLED LoopStoreLock(s)
    /\ \A t2 \in Threads \ {t} : ~ENABLED CheckVisibilityLock(t2)

\* C16 (as claimed): every store has its one refresh task from construction to
\* Close: a store that is not closed has a task that was started and has not
\* ended, and a task ends only on a closed store.
C16_OneTaskFromConstructionToClose ==
  \A s \in Instances :
    /\ ~store[s].spMsgClosed => store[s].loopPc \notin {"none", "exited"}
    /\ store[s].loopPc = "exited" => store[s].spMsgClosed

\* the errors of parsePath
ParseErrors == {"parse", "scheme", "disableGC"}

\* C17: a Driver.Open call that fails returns an error and no handle, leaves
\* the registry map and the set of constructed instances as they were, and
\* leaves the registry lock free; the errors of a malformed descriptor are
\* returned before pd.NewClient is called, and no other error is.
C17_FailedOpenChangesNothing ==
  [][\A t \in Threads :
       (ret'[t] # ret[t] /\ ret'[t].op = "Open" /\ ret'[t].err # "") =>
         /\ ret'[t].val = 0 /\ hdl'[t] = 0
         /\ cache' = cache /\ store' = store
         /\ mcOwner' = 0
         /\ pc'[t] = "idle"
         /\ ret'[t].err \in ParseErrors <=> pc[t] = "idle"
    ]_vars

\* One thread's Open has failed at pd.NewClient while the other thread holds
\* a registered instance: the registry still holds it and the lock is free.
C17_Witness ==
  \E t, t2 \in Threads :
    /\ ret[t] = Ret("Open", 0, "i/o timeout") /\ pc[t] = "idle"
    /\ hdl[t2] # 0 /\ Registered(cache, store[hdl[t2]].uuid, hdl[t2])
    /\ mcOwner = 0

\* C18 (as claimed): an instance opened through Driver.Open and not closed
\* stays registered under its identity whatever older handles of that identity
\* are closed, so each identity has at most one instance that is not closed.
C18_LiveHandleStaysRegistered ==
  /\ \A s \in Instances :
       ~store[s].spMsgClosed => Registered(cache, store[s].uuid, s)
  /\ \A u \in UUIDs :
       Cardinality({s \in StoresOf(u) : ~store[s].spMsgClosed}) <= 1

\* the greatest and the least of a non-empty set of integers, and the result
\* an aggregate owes for the set of non-NULL values fed to a group
Greatest(S) == CHOOSE x \in S : \A y \in S : y <= x
Least(S) == CHOOSE x \in S : \A y \in S : x <= y
Owed(isMax, S) ==
  IF S = {} THEN Null ELSE IntDatum(IF isMax THEN Greatest(S) ELSE Least(S))

\* the value GetGroupResult would return for a group, and the value
\* GetStreamResult would return
GroupValue(f, g) ==
  IF g \in DOMAIN funcs[f].resultMapper THEN funcs[f].resultMapper[g].Value ELSE Null
StreamValue(f) ==
  IF funcs[f].streamCtx = 0 THEN Null ELSE streamCtxs[funcs[f].streamCtx].Value

\* C19: for a max (min) function with one argument, at every moment the result
\* of each group key is the greatest (least) non-NULL argument value of the
\* rows fed to that group by Update, NULL when there was none, whatever was fed
\* to other groups, and GetGroupResult returns it; the stream group likewise
\* holds the greatest (least) non-NULL value fed by StreamUpdate since the last
\* GetStreamResult, and GetStreamResult returns it and leaves the function
\* without a stream group.
C19_MaxMinOfFedValues ==
  /\ [](\A f \in Funcs :
          Len(arrays[funcs[f].Args]) = 1 =>
            /\ \A g \in GroupKeys : GroupValue(f, g) = Owed(funcs[f].isMax, fed[f][g])
            /\ StreamValue(f) = Owed(funcs[f].isMax, streamFed[f])
            /\ aggRet.op = "GetGroupResult" /\ aggRet.f = f =>
                 aggRet.val = Owed(funcs[f].isMax, fed[f][aggRet.key]))
  /\ [][\A f \in Funcs :
          (aggRet'.op = "GetStreamResult" /\ aggRet'.f = f
             /\ Len(arrays[funcs[f].Args]) = 1) =>
            /\ aggRet'.val = Owed(funcs[f].isMax, streamFed[f])
            /\ funcs'[f].streamCtx = 0
            /\ streamFed'[f] = {}
       ]_vars

\* A max function over one column was fed 2 and then 1 in one group and 1 in
\* the other, and GetGroupResult has returned 2 for the first; its stream
\* group, fed 1, holds 1.
C19_Witness ==
  /\ funcs[1].isMax /\ Len(arrays[funcs[1].Args]) = 1
  /\ aggRet = AggRet("GetGroupResult", 1, "g1", IntDatum(2), "")
  /\ fed[1]["g1"] = {1, 2} /\ fed[1]["g2"] = {1}
  /\ GroupValue(1, "g2") = IntDatum(1)
  /\ streamFed[1] = {1} /\ StreamValue(1) = IntDatum(1)

\* the expression objects a function's Args hold
ArgsOf(f) == arrays[funcs[f].Args]

\* C20 (as claimed): Clone leaves the receiver as it was, its Args holding the
\* expression objects they held before the call; the clone's Args are another
\* slice holding other objects, each a copy of the receiver's argument at its
\* position; the clone's result map is empty; and a call on one function never
\* changes a group result of another.
C20_CloneIndependent ==
  [][\A f \in Funcs :
       /\ (aggRet'.op = "Clone" /\ aggRet'.f = f /\ Len(funcs') = Len(funcs) + 1) =>
            LET nf == Len(funcs) + 1
                nfArgs == arrays'[funcs'[nf].Args]
            IN
              /\ funcs'[f] = funcs[f]
              /\ ArgsOf(f)' = ArgsOf(f)
              /\ funcs'[nf].Args # funcs'[f].Args
              /\ \A i, j \in 1..Len(ArgsOf(f)) : nfArgs[i] # ArgsOf(f)'[j]
              /\ \A i \in 1..Len(ArgsOf(f)) :
                   exprs'[nfArgs[i]] = exprs[ArgsOf(f)[i]]
              /\ funcs'[nf].resultMapper = NoMapper
       /\ aggRet'.f # f =>
            \A g \in GroupKeys : GroupValue(f, g)' = GroupValue(f, g)
    ]_vars

====
